---- MODULE Spec2Model ----
(***************************************************************************)
(* Model of calculator.cpp: the read loop of main, the tokeniser           *)
(* (tokenise), the operator table (opContracts) and the shunting-yard      *)
(* evaluator (expression, evaluate).                                       *)
(*                                                                         *)
(* A double is modelled by the term that computes it: Num(n) for a parsed  *)
(* literal and <<f, l, r>> for the application of the table function f to   *)
(* the doubles l and r. Two equal terms denote the same double; Val gives  *)
(* the exact integer a term over + - * denotes.                            *)
(***************************************************************************)
EXTENDS Integers, Sequences, FiniteSets

\* Longest input line drawn from the whole alphabet.
MaxLen == 3
\* The terminated lines of a bounded input stream.
MaxLines == 2
\* The longest line of a bounded input stream that is built freely.
MaxFiniteLen == 2

----------------------------------------------------------------------------
(* Characters and input lines *)

DigitChars == <<"0", "1", "2", "3", "4", "5", "6", "7", "8", "9">>

isdigit(c) == \E i \in 1..10 : DigitChars[i] = c

DigitVal(c) == (CHOOSE i \in 1..10 : DigitChars[i] = c) - 1

Digits == {"2", "3", "4"}
Signs == {"+", "-"}
Supported == {"+", "-", "*", "/", "^"}
OpChars == Supported \cup {"%"}
Alphabet == Digits \cup OpChars \cup {"(", ")", " "}

\* An operand as it is written: a digit, or a digit with a sign.
Operands == {<<d>> : d \in Digits} \cup {<<s, d>> : s \in Signs, d \in Digits}

ShortLines == UNION {[1..k -> Alphabet] : k \in 0..MaxLen}

SignedLines == {x \o <<o>> \o y : x \in Operands, o \in OpChars, y \in Operands}

FlatLines == {<<a, o1, b, o2, c>> :
                 a \in Digits, o1 \in OpChars, b \in Digits, o2 \in OpChars, c \in Digits}

LeftParenLines == {<<"(", a, o1, b, ")", o2, c>> :
                 a \in Digits, o1 \in Supported, b \in Digits, o2 \in Supported, c \in Digits}

RightParenLines == {<<a, o1, "(", b, o2, c, ")">> :
                 a \in Digits, o1 \in Supported, b \in Digits, o2 \in Supported, c \in Digits}

\* The bracketed lines with one bracket missing, or one bracket too many.
UnbalancedLines ==
    {<<a, o1, b, ")", o2, c>> :
        a \in Digits, o1 \in Supported, b \in Digits, o2 \in Supported, c \in Digits}
    \cup {<<a, o1, "(", b, o2, c>> :
        a \in Digits, o1 \in Supported, b \in Digits, o2 \in Supported, c \in Digits}
    \cup {<<"(", a, o1, b>> : a \in Digits, o1 \in Supported, b \in Digits}
    \cup {<<a, o1, b, ")">> : a \in Digits, o1 \in Supported, b \in Digits}
    \cup {<<"(", "(", a, o1, b, ")">> : a \in Digits, o1 \in Supported, b \in Digits}
    \cup {<<"(", a, o1, b, ")", ")">> : a \in Digits, o1 \in Supported, b \in Digits}

\* The lines of a bounded input stream: every line of up to MaxFiniteLen
\* characters, and operand-operator lines with and without a bracket pair.
FiniteLines ==
    (UNION {[1..k -> Alphabet] : k \in 0..MaxFiniteLen})
    \cup {<<"2", o1, "3", o2, "4">> : o1, o2 \in OpChars}
    \cup {<<"(", "2", o1, "3", ")", o2, "4">> : o1, o2 \in Supported}

Lines == ShortLines \cup SignedLines \cup FlatLines \cup LeftParenLines
            \cup RightParenLines \cup UnbalancedLines

----------------------------------------------------------------------------
(* Values, tokens and the operator table *)

Num(n) == <<"num", n>>

\* An indeterminate double: what a read of memory that holds no operand yields.
Garbage == <<"garbage">>

Token(type, symbol, value) == [type |-> type, symbol |-> symbol, value |-> value]

OpContract(f, p, leftAssoc) ==
    [func |-> f, precedence |-> p, leftAssociativity |-> leftAssoc, init |-> TRUE]

\* OpContract() {}: every member is left indeterminate.
DefaultOpContract ==
    [func |-> "?", precedence |-> 0, leftAssociativity |-> FALSE, init |-> FALSE]

InitialContracts ==
    [s \in Supported |->
        CASE s = "+" -> OpContract("+", 1, TRUE)
          [] s = "-" -> OpContract("-", 1, TRUE)
          [] s = "*" -> OpContract("*", 2, TRUE)
          [] s = "/" -> OpContract("/", 2, TRUE)
          [] s = "^" -> OpContract("^", 3, FALSE)]

\* std::map::operator[]: a missing key is inserted with a default contract.
Subscript(table, sym) ==
    [s \in DOMAIN table \cup {sym} |->
        IF s \in DOMAIN table THEN table[s] ELSE DefaultOpContract]

Top(s) == s[Len(s)]
Pop(s) == SubSeq(s, 1, Len(s) - 1)

----------------------------------------------------------------------------
VARIABLES
    pc,           \* where the process is
    input,        \* the line std::getline read
    pos,          \* the stream's read position in input (1-based)
    tokens,       \* the deque tokenise builds, then expression scans
    ti,           \* the index of the for loop of expression
    output,       \* std::queue<double> output, front first
    operators,    \* std::stack<Token> operators, top last
    opContracts,  \* the static operator table
    result,       \* the double expression returned
    nout,         \* results written to std::cout for the line read last
    stderr,       \* the diagnostic written to std::cerr
    ub,           \* the undefined operations executed for the line read last
    eof,          \* std::cin.eof()
    nleft,        \* the terminated lines std::cin still holds at most;
                  \* negative when the length of the stream is not known
    again         \* <<line, value>> when std::cin holds next the line that
                  \* was just answered with value; <<>> otherwise

vars == <<pc, input, pos, tokens, ti, output, operators, opContracts, result,
          nout, stderr, ub, eof, nleft, again>>

\* The lines std::getline may find on std::cin.
StreamLines == IF nleft < 0 THEN Lines ELSE FiniteLines

\* The non-empty terminated lines std::getline may read next.
NextLines == IF again = <<>> THEN StreamLines \ {<<>>} ELSE {again[1]}

\* What a read of a terminated line leaves on std::cin.
LinesLeft == IF nleft < 0 THEN nleft ELSE nleft - 1

NoDiagnostic == <<>>

\* The failure is reported and the read loop goes on with the next line.
ExitFailure_Recovers == "getline"

\* Where exit(EXIT_FAILURE) leaves the process.
ExitFailure == "exit_failure"

Init ==
    /\ pc = "getline"
    /\ input = <<>>
    /\ pos = 1
    /\ tokens = <<>>
    /\ ti = 1
    /\ output = <<>>
    /\ operators = <<>>
    /\ opContracts = InitialContracts
    /\ result = Num(0)
    /\ nout = 0
    /\ stderr = NoDiagnostic
    /\ ub = {}
    /\ eof = FALSE
    /\ nleft = -1
    /\ again = <<>>

----------------------------------------------------------------------------
(* main: the read loop *)

\* std::getline met the end of the input (after the last line terminator, or
\* at the end of a last line that has none): std::cin.eof() holds.
ReadEof ==
    /\ pc = "getline"
    /\ again = <<>>
    /\ \E line \in StreamLines :
        /\ input' = line
        /\ pc' = "exit_success"
    /\ eof' = TRUE
    /\ UNCHANGED <<pos, tokens, ti, output, operators, opContracts, result,
                   nout, stderr, ub, nleft, again>>

\* An empty line ends the session as the end of the input does.
ReadEmpty_Exits ==
    /\ pc = "getline"
    /\ nleft # 0
    /\ again = <<>>
    /\ <<>> \in StreamLines
    /\ input' = <<>>
    /\ pc' = "exit_success"
    /\ nleft' = LinesLeft
    /\ UNCHANGED <<pos, tokens, ti, output, operators, opContracts, result,
                   nout, stderr, ub, eof, again>>

\* input.empty(): continue.
ReadEmpty ==
    /\ pc = "getline"
    /\ nleft # 0
    /\ again = <<>>
    /\ <<>> \in StreamLines
    /\ input' = <<>>
    /\ nout' = 0
    /\ ub' = {}
    /\ nleft' = LinesLeft
    /\ UNCHANGED <<pc, pos, tokens, ti, output, operators, opContracts, result,
                   stderr, eof, again>>

\* A terminated, non-empty line: tokenise(input) starts with a fresh stream
\* and an empty deque.
ReadLine ==
    /\ pc = "getline"
    /\ nleft # 0
    /\ \E line \in NextLines :
        input' = line
    /\ pc' = "tokenise"
    /\ pos' = 1
    /\ tokens' = <<>>
    /\ nout' = 0
    /\ ub' = {}
    /\ nleft' = LinesLeft
    /\ UNCHANGED <<ti, output, operators, opContracts, result, stderr, eof, again>>

\* std::cout << expression(tokens) << std::endl; then the next iteration.
\* The locals of the iteration are gone; input is overwritten by the next
\* std::getline before it is read again.
WriteResult ==
    /\ pc = "print"
    /\ nout' = nout + 1
    /\ pc' = "getline"
    /\ input' = <<>>
    /\ pos' = 1
    /\ tokens' = <<>>
    /\ ti' = 1
    /\ output' = <<>>
    /\ operators' = <<>>
    /\ result' = Num(0)
    /\ \/ again' = <<>>
       \/ /\ nleft # 0
          /\ again' = <<input, result>>
    /\ UNCHANGED <<opContracts, stderr, ub, eof, nleft>>

----------------------------------------------------------------------------
(* tokenise *)

RECURSIVE DigitsEnd(_, _)
\* The first position at or after i of s that holds no decimal digit.
DigitsEnd(s, i) ==
    IF i <= Len(s) /\ isdigit(s[i]) THEN DigitsEnd(s, i + 1) ELSE i

RECURSIVE NatVal(_, _, _)
\* The number the decimal digits s[i] .. s[j-1] write.
NatVal(s, i, j) ==
    IF j <= i THEN 0 ELSE 10 * NatVal(s, i, j - 1) + DigitVal(s[j - 1])

\* stream >> t.value at position p, for the characters of Alphabet (no '.',
\* no exponent): an optional sign, then at least one digit, read greedily.
\* Without a digit the extraction fails.
ExtractDouble(s, p) ==
    LET start == IF p <= Len(s) /\ s[p] \in Signs THEN p + 1 ELSE p
        end == DigitsEnd(s, start)
        n == NatVal(s, start, end)
    IN [ok |-> end > start,
        value |-> IF p <= Len(s) /\ s[p] = "-" THEN 0 - n ELSE n,
        next |-> end]

peek == input[pos]

\* A sign starts a number at the start of the line only.
StartsSignedNumber_FirstOnly(c, toks) ==
    /\ c \in Signs
    /\ toks = <<>>

\* (peek == '+' || peek == '-') && (tokens.empty() || tokens.back().type != NUMBER)
StartsSignedNumber(c, toks) ==
    /\ c \in Signs
    /\ IF toks = <<>> THEN TRUE ELSE Top(toks).type # "NUMBER"

TokUnchanged ==
    UNCHANGED <<input, opContracts, result, nout, ub, eof, nleft, again>>

\* The loop ends (peek met the end, or the last extraction did): tokenise
\* returns and expression(tokens) starts with an empty queue and stack.
TokEnd ==
    /\ pc = "tokenise"
    /\ pos > Len(input)
    /\ pc' = "expression"
    /\ ti' = 1
    /\ output' = <<>>
    /\ operators' = <<>>
    /\ UNCHANGED <<pos, tokens, stderr>>
    /\ TokUnchanged

\* The space is looked at and not taken from the stream.
TokSpace_Stuck ==
    /\ pc = "tokenise"
    /\ pos <= Len(input)
    /\ peek = " "
    /\ UNCHANGED <<pos, pc, tokens, ti, output, operators, stderr>>
    /\ TokUnchanged

\* peek == ' ': stream.ignore(1); continue.
TokSpace ==
    /\ pc = "tokenise"
    /\ pos <= Len(input)
    /\ peek = " "
    /\ pos' = pos + 1
    /\ UNCHANGED <<pc, tokens, ti, output, operators, stderr>>
    /\ TokUnchanged

TokLeftBracket ==
    /\ pc = "tokenise"
    /\ pos <= Len(input)
    /\ peek = "("
    /\ tokens' = Append(tokens, Token("LEFT_BRACKET", "", 0))
    /\ pos' = pos + 1
    /\ UNCHANGED <<pc, ti, output, operators, stderr>>
    /\ TokUnchanged

TokRightBracket ==
    /\ pc = "tokenise"
    /\ pos <= Len(input)
    /\ peek = ")"
    /\ tokens' = Append(tokens, Token("RIGHT_BRACKET", "", 0))
    /\ pos' = pos + 1
    /\ UNCHANGED <<pc, ti, output, operators, stderr>>
    /\ TokUnchanged

\* Positive or negative number.
TokSigned ==
    /\ pc = "tokenise"
    /\ pos <= Len(input)
    /\ StartsSignedNumber(peek, tokens)
    /\ LET x == ExtractDouble(input, pos)
       IN /\ x.ok
          /\ tokens' = Append(tokens, Token("NUMBER", "", x.value))
          /\ pos' = x.next
    /\ UNCHANGED <<pc, ti, output, operators, stderr>>
    /\ TokUnchanged

\* stream.fail(): "Invalid token", exit(EXIT_FAILURE).
TokInvalid ==
    /\ pc = "tokenise"
    /\ pos <= Len(input)
    /\ StartsSignedNumber(peek, tokens)
    /\ ~ExtractDouble(input, pos).ok
    /\ stderr' = <<"Invalid token">>
    /\ pc' = ExitFailure
    /\ UNCHANGED <<pos, tokens, ti, output, operators>>
    /\ TokUnchanged

TokNumber ==
    /\ pc = "tokenise"
    /\ pos <= Len(input)
    /\ isdigit(peek)
    /\ LET x == ExtractDouble(input, pos)
       IN /\ tokens' = Append(tokens, Token("NUMBER", "", x.value))
          /\ pos' = x.next
    /\ UNCHANGED <<pc, ti, output, operators, stderr>>
    /\ TokUnchanged

TokOperator ==
    /\ pc = "tokenise"
    /\ pos <= Len(input)
    /\ peek \notin {" ", "(", ")"}
    /\ ~StartsSignedNumber(peek, tokens)
    /\ ~isdigit(peek)
    /\ tokens' = Append(tokens, Token("OPERATOR", peek, 0))
    /\ pos' = pos + 1
    /\ UNCHANGED <<pc, ti, output, operators, stderr>>
    /\ TokUnchanged

----------------------------------------------------------------------------
(* evaluate and the pop-and-apply step *)

\* Every operator is compared as a right-associative one.
ShouldPop_Strict(contract1, contract2) ==
    contract1.precedence < contract2.precedence

\* Every operator is compared as a left-associative one.
ShouldPop_Loose(contract1, contract2) ==
    contract1.precedence <= contract2.precedence

\* The loop condition of the Operator branch on two initialised contracts.
ShouldPop(contract1, contract2) ==
    \/ (contract1.leftAssociativity /\ contract1.precedence <= contract2.precedence)
    \/ (~contract1.leftAssociativity /\ contract1.precedence < contract2.precedence)

\* The same condition as the program can decide it: a contract that
\* operator[] default-constructed holds indeterminate members, so the
\* comparison may come out either way.
ShouldPopOutcomes(contract1, contract2) ==
    IF contract1.init /\ contract2.init
    THEN {ShouldPop(contract1, contract2)}
    ELSE BOOLEAN

\* evaluate(left, op, right): find the contract and call its function, or
\* report the operator and exit. The call through the indeterminate pointer
\* of a default-constructed contract is undefined: the process crashes or
\* some double comes back.
evaluate(table, left, op, right) ==
    IF op \in DOMAIN table
    THEN IF table[op].init
         THEN {[kind |-> "value", v |-> <<table[op].func, left, right>>, ub |-> {}]}
         ELSE {[kind |-> "crash", v |-> Garbage, ub |-> {"indeterminate_call"}],
               [kind |-> "value", v |-> Garbage, ub |-> {"indeterminate_call"}]}
    ELSE {[kind |-> "exit", v |-> Garbage, ub |-> {}]}

\* double left = output.front(); output.pop(); double right = output.front();
\* output.pop(); on a queue that holds fewer than two doubles front() and
\* pop() are undefined: the process crashes, or the reads yield indeterminate
\* doubles and the queue is left corrupt.
PopOperands(out) ==
    IF Len(out) >= 2
    THEN {[crash |-> FALSE, corrupt |-> FALSE, left |-> out[1], right |-> out[2],
           rest |-> SubSeq(out, 3, Len(out)), ub |-> {}]}
    ELSE {[crash |-> TRUE, corrupt |-> TRUE, left |-> Garbage, right |-> Garbage,
           rest |-> <<>>, ub |-> {"front_on_empty"}],
          [crash |-> FALSE, corrupt |-> TRUE,
           left |-> IF Len(out) >= 1 THEN out[1] ELSE Garbage,
           right |-> Garbage, rest |-> <<>>, ub |-> {"front_on_empty"}]}

\* output.push(v) after the pops: on a corrupt queue the size and the
\* doubles in front of v are indeterminate, and v itself may be out of reach.
PushResult(p, v) ==
    IF p.corrupt
    THEN {<<>>, <<v>>, <<Garbage, v>>}
    ELSE {Append(p.rest, v)}

Unsupported(sym) == <<"Operator", sym, "is not supported">>

\* What one pop-and-apply of the operator sym does to the queue out.
ReduceOutcomes(table, out, sym) ==
    UNION {
        IF p.crash
        THEN {[pc |-> "crashed", output |-> p.rest, stderr |-> NoDiagnostic, ub |-> p.ub]}
        ELSE UNION {
            IF e.kind = "value"
            THEN {[pc |-> "expression", output |-> q, stderr |-> NoDiagnostic,
                   ub |-> p.ub \cup e.ub] : q \in PushResult(p, e.v)}
            ELSE {[pc |-> IF e.kind = "exit" THEN ExitFailure ELSE "crashed",
                   output |-> p.rest,
                   stderr |-> IF e.kind = "exit" THEN Unsupported(sym) ELSE NoDiagnostic,
                   ub |-> p.ub \cup e.ub]}
            : e \in evaluate(table, p.left, sym, p.right)}
        : p \in PopOperands(out)}

\* The operands are taken from the queue and the result is pushed back.
Reduce(table, sym, more) ==
    \E r \in ReduceOutcomes(table, output, sym) :
        /\ pc' = r.pc
        /\ output' = r.output
        /\ stderr' = IF r.stderr = NoDiagnostic THEN stderr ELSE r.stderr
        /\ ub' = ub \cup r.ub \cup more

----------------------------------------------------------------------------
(* expression: the scan of the tokens *)

cur == tokens[ti]

Scanning == pc = "expression" /\ ti <= Len(tokens)

ExprUnchanged ==
    UNCHANGED <<input, pos, tokens, result, nout, eof, nleft, again>>

\* Push number to number stream.
ExprNumber ==
    /\ Scanning
    /\ cur.type = "NUMBER"
    /\ output' = Append(output, Num(cur.value))
    /\ ti' = ti + 1
    /\ UNCHANGED <<pc, operators, opContracts, stderr, ub>>
    /\ ExprUnchanged

\* The table after opContracts[token.symbol] and, when the top of the stack
\* is an operator, opContracts[op2.symbol].
WhileTable ==
    LET t1 == Subscript(opContracts, cur.symbol)
    IN IF operators = <<>> THEN opContracts
       ELSE IF Top(operators).type # "OPERATOR" THEN t1
       ELSE Subscript(t1, Top(operators).symbol)

\* Whether the loop body pops the top of the stack.
PopChoices ==
    IF operators = <<>> \/ Top(operators).type # "OPERATOR"
    THEN {FALSE}
    ELSE ShouldPopOutcomes(WhileTable[cur.symbol], WhileTable[Top(operators).symbol])

IndeterminateRead ==
    IF /\ operators # <<>>
       /\ Top(operators).type = "OPERATOR"
       /\ ~(WhileTable[cur.symbol].init /\ WhileTable[Top(operators).symbol].init)
    THEN {"indeterminate_read"}
    ELSE {}

\* One iteration of the while loop that pops.
ExprOperatorReduce ==
    /\ Scanning
    /\ cur.type = "OPERATOR"
    /\ TRUE \in PopChoices
    /\ operators' = Pop(operators)
    /\ opContracts' = WhileTable
    /\ Reduce(WhileTable, Top(operators).symbol, IndeterminateRead)
    /\ UNCHANGED ti
    /\ ExprUnchanged

\* The loop ends; push operator to operator stack.
ExprOperatorPush ==
    /\ Scanning
    /\ cur.type = "OPERATOR"
    /\ FALSE \in PopChoices
    /\ opContracts' = WhileTable
    /\ operators' = Append(operators, cur)
    /\ ub' = ub \cup IndeterminateRead
    /\ ti' = ti + 1
    /\ UNCHANGED <<pc, output, stderr>>
    /\ ExprUnchanged

\* Push opening bracket to stack.
ExprLeftBracket ==
    /\ Scanning
    /\ cur.type = "LEFT_BRACKET"
    /\ operators' = Append(operators, cur)
    /\ ti' = ti + 1
    /\ UNCHANGED <<pc, output, opContracts, stderr, ub>>
    /\ ExprUnchanged

\* Evaluate until we reach a left bracket.
ExprRightBracketReduce ==
    /\ Scanning
    /\ cur.type = "RIGHT_BRACKET"
    /\ operators # <<>>
    /\ Top(operators).type # "LEFT_BRACKET"
    /\ operators' = Pop(operators)
    /\ Reduce(opContracts, Top(operators).symbol, {})
    /\ UNCHANGED <<ti, opContracts>>
    /\ ExprUnchanged

\* Didn't find a left bracket, mismatch.
ExprRightBracketMismatch ==
    /\ Scanning
    /\ cur.type = "RIGHT_BRACKET"
    /\ operators = <<>>
    /\ stderr' = <<"Mismatched parenthesis">>
    /\ pc' = ExitFailure
    /\ UNCHANGED <<ti, output, operators, opContracts, ub>>
    /\ ExprUnchanged

\* Drop left bracket.
ExprRightBracketDrop ==
    /\ Scanning
    /\ cur.type = "RIGHT_BRACKET"
    /\ operators # <<>>
    /\ Top(operators).type = "LEFT_BRACKET"
    /\ operators' = Pop(operators)
    /\ ti' = ti + 1
    /\ UNCHANGED <<pc, output, opContracts, stderr, ub>>
    /\ ExprUnchanged

----------------------------------------------------------------------------
(* expression: after the scan *)

Draining == pc = "expression" /\ ti > Len(tokens)

\* A bracket left on the stack is dropped without a diagnostic.
DrainMismatch_Dropped ==
    /\ Draining
    /\ operators # <<>>
    /\ Top(operators).type \in {"LEFT_BRACKET", "RIGHT_BRACKET"}
    /\ operators' = Pop(operators)
    /\ UNCHANGED <<pc, stderr, ti, output, opContracts, ub>>
    /\ ExprUnchanged

DrainMismatch ==
    /\ Draining
    /\ operators # <<>>
    /\ Top(operators).type \in {"LEFT_BRACKET", "RIGHT_BRACKET"}
    /\ operators' = Pop(operators)
    /\ stderr' = <<"Mismatched parenthesis">>
    /\ pc' = ExitFailure
    /\ UNCHANGED <<ti, output, opContracts, ub>>
    /\ ExprUnchanged

DrainOperands ==
    /\ Draining
    /\ operators # <<>>
    /\ Top(operators).type \notin {"LEFT_BRACKET", "RIGHT_BRACKET"}
    /\ Len(output) < 2
    /\ operators' = Pop(operators)
    /\ stderr' = <<"Mismatched operands">>
    /\ pc' = ExitFailure
    /\ UNCHANGED <<ti, output, opContracts, ub>>
    /\ ExprUnchanged

DrainReduce ==
    /\ Draining
    /\ operators # <<>>
    /\ Top(operators).type \notin {"LEFT_BRACKET", "RIGHT_BRACKET"}
    /\ Len(output) >= 2
    /\ operators' = Pop(operators)
    /\ Reduce(opContracts, Top(operators).symbol, {})
    /\ UNCHANGED <<ti, opContracts>>
    /\ ExprUnchanged

\* What front() reads on an empty queue: whatever the storage holds, the
\* zero of fresh storage or what an earlier use left there.
FrontOnEmpty == {Num(0), Garbage}

\* The value produced last is returned: output.back().
ExprReturn_Back ==
    /\ Draining
    /\ operators = <<>>
    /\ \/ /\ output # <<>>
          /\ result' = Top(output)
          /\ pc' = "print"
          /\ UNCHANGED ub
       \/ /\ output = <<>>
          /\ result' \in FrontOnEmpty
          /\ pc' = "print"
          /\ ub' = ub \cup {"return_front_on_empty"}
       \/ /\ output = <<>>
          /\ pc' = "crashed"
          /\ ub' = ub \cup {"return_front_on_empty"}
          /\ UNCHANGED result
    /\ UNCHANGED <<ti, output, operators, opContracts, stderr>>
    /\ UNCHANGED <<input, pos, tokens, nout, eof, nleft, again>>

\* return output.front(): on an empty queue the read is undefined.
ExprReturn ==
    /\ Draining
    /\ operators = <<>>
    /\ \/ /\ output # <<>>
          /\ result' = output[1]
          /\ pc' = "print"
          /\ UNCHANGED ub
       \/ /\ output = <<>>
          /\ result' \in FrontOnEmpty
          /\ pc' = "print"
          /\ ub' = ub \cup {"return_front_on_empty"}
       \/ /\ output = <<>>
          /\ pc' = "crashed"
          /\ ub' = ub \cup {"return_front_on_empty"}
          /\ UNCHANGED result
    /\ UNCHANGED <<ti, output, operators, opContracts, stderr>>
    /\ UNCHANGED <<input, pos, tokens, nout, eof, nleft, again>>

----------------------------------------------------------------------------
Next ==
    \/ ReadEof
    \/ ReadEmpty
    \/ ReadLine
    \/ WriteResult
    \/ TokEnd
    \/ TokSpace
    \/ TokLeftBracket
    \/ TokRightBracket
    \/ TokSigned
    \/ TokInvalid
    \/ TokNumber
    \/ TokOperator
    \/ ExprNumber
    \/ ExprOperatorReduce
    \/ ExprOperatorPush
    \/ ExprLeftBracket
    \/ ExprRightBracketReduce
    \/ ExprRightBracketMismatch
    \/ ExprRightBracketDrop
    \/ DrainMismatch
    \/ DrainOperands
    \/ DrainReduce
    \/ ExprReturn

Spec == Init /\ [][Next]_vars

\* The same program on a bounded input stream: at most MaxLines terminated
\* lines, then the end of the input.
InitFinite ==
    /\ pc = "getline"
    /\ input = <<>>
    /\ pos = 1
    /\ tokens = <<>>
    /\ ti = 1
    /\ output = <<>>
    /\ operators = <<>>
    /\ opContracts = InitialContracts
    /\ result = Num(0)
    /\ nout = 0
    /\ stderr = NoDiagnostic
    /\ ub = {}
    /\ eof = FALSE
    /\ nleft = MaxLines
    /\ again = <<>>

\* The process is single-threaded and runs on: a step that can be taken is
\* taken, and std::getline returns on a finite stream.
SpecFinite == InitFinite /\ [][Next]_vars /\ WF_vars(Next)

TypeOK ==
    /\ pc \in {"getline", "tokenise", "expression", "print",
               "exit_success", "exit_failure", "crashed"}
    /\ pos \in 1..(Len(input) + 1)
    /\ nout \in 0..1

----------------------------------------------------------------------------
(* Vocabulary of the properties *)

\* The evaluation of the line read last has ended: expression returned, or
\* the process exited or crashed.
Ended == pc \in {"print", "exit_failure", "crashed"}

\* The double a one-digit literal denotes.
Lit(c) == Num(DigitVal(c))

Prec(o) == InitialContracts[o].precedence

LeftAssoc(o) == InitialContracts[o].leftAssociativity

RECURSIVE IsArith(_)
\* The term is built from literals with + - * only.
IsArith(t) ==
    \/ (Len(t) = 2 /\ t[1] = "num")
    \/ (Len(t) = 3 /\ t[1] \in {"+", "-", "*"} /\ IsArith(t[2]) /\ IsArith(t[3]))

RECURSIVE Val(_)
\* The integer a term over + - * denotes.
Val(t) ==
    IF t[1] = "num" THEN t[2]
    ELSE IF t[1] = "+" THEN Val(t[2]) + Val(t[3])
    ELSE IF t[1] = "-" THEN Val(t[2]) - Val(t[3])
    ELSE Val(t[2]) * Val(t[3])

\* a o1 b o2 c, one-digit operands, operators of the table.
IsFlat(s) ==
    /\ Len(s) = 5
    /\ s[1] \in Digits /\ s[3] \in Digits /\ s[5] \in Digits
    /\ s[2] \in Supported /\ s[4] \in Supported

\* (a o1 b) o2 c
IsLeftParen(s) ==
    /\ Len(s) = 7
    /\ s[1] = "(" /\ s[5] = ")"
    /\ s[2] \in Digits /\ s[4] \in Digits /\ s[7] \in Digits
    /\ s[3] \in Supported /\ s[6] \in Supported

\* a o1 (b o2 c)
IsRightParen(s) ==
    /\ Len(s) = 7
    /\ s[3] = "(" /\ s[7] = ")"
    /\ s[1] \in Digits /\ s[4] \in Digits /\ s[6] \in Digits
    /\ s[2] \in Supported /\ s[5] \in Supported

----------------------------------------------------------------------------
(* A recursive-descent evaluator of a line, by precedence climbing *)

RefFail == [ok |-> FALSE, v |-> Garbage, next |-> 0]

RECURSIVE RefSkip(_, _)
RefSkip(s, i) == IF i <= Len(s) /\ s[i] = " " THEN RefSkip(s, i + 1) ELSE i

RECURSIVE RefDigits(_, _, _)
\* Reads the digits from position i on, acc being the number read so far.
RefDigits(s, i, acc) ==
    IF i <= Len(s) /\ isdigit(s[i])
    THEN RefDigits(s, i + 1, 10 * acc + DigitVal(s[i]))
    ELSE [ok |-> TRUE, v |-> Num(acc), next |-> i]

RECURSIVE RefExpr(_, _, _)
RECURSIVE RefRest(_, _, _, _)
RECURSIVE RefPrimary(_, _)

\* primary ::= number | sign number | ( expr )
RefPrimary(s, i) ==
    LET j == RefSkip(s, i)
    IN IF j > Len(s) THEN RefFail
       ELSE IF isdigit(s[j]) THEN RefDigits(s, j, 0)
       ELSE IF s[j] \in Signs
       THEN IF j + 1 <= Len(s) /\ isdigit(s[j + 1])
            THEN LET d == RefDigits(s, j + 1, 0)
                 IN IF s[j] = "-"
                    THEN [ok |-> TRUE, v |-> Num(0 - d.v[2]), next |-> d.next]
                    ELSE d
            ELSE RefFail
       ELSE IF s[j] = "("
       THEN LET e == RefExpr(s, j + 1, 1)
                k == RefSkip(s, e.next)
            IN IF e.ok /\ k <= Len(s) /\ s[k] = ")"
               THEN [ok |-> TRUE, v |-> e.v, next |-> k + 1]
               ELSE RefFail
       ELSE RefFail

\* expr ::= primary (op expr)*, the operators binding at least as minPrec
RefExpr(s, i, minPrec) ==
    LET p == RefPrimary(s, i)
    IN IF p.ok THEN RefRest(s, p.v, p.next, minPrec) ELSE RefFail

RefRest(s, lhs, i, minPrec) ==
    LET j == RefSkip(s, i)
    IN IF j <= Len(s) /\ s[j] \in Supported /\ Prec(s[j]) >= minPrec
       THEN LET op == s[j]
                r == RefExpr(s, j + 1, IF LeftAssoc(op) THEN Prec(op) + 1 ELSE Prec(op))
            IN IF r.ok THEN RefRest(s, <<op, lhs, r.v>>, r.next, minPrec) ELSE RefFail
       ELSE [ok |-> TRUE, v |-> lhs, next |-> j]

\* The whole line is one expression.
RefEval(s) ==
    LET e == RefExpr(s, 1, 1)
    IN IF e.ok /\ RefSkip(s, e.next) > Len(s) THEN e ELSE RefFail

WellFormed(s) == RefEval(s).ok

----------------------------------------------------------------------------
(* C1 .. C5: the value of an expression *)

\* C1: when a higher-precedence operator follows a lower-precedence one, as in
\* a+b*c, the line evaluates to a o1 (b o2 c): the higher-precedence operator
\* is applied to its own two adjacent operands first.
C1_Precedence ==
    (Ended /\ IsFlat(input) /\ Prec(input[4]) > Prec(input[2]))
        => /\ pc = "print"
           /\ result = <<input[2], Lit(input[1]), <<input[4], Lit(input[3]), Lit(input[5])>>>>

\* C2: a^b^c evaluates to a^(b^c).
C2_RightAssociativity ==
    (Ended /\ IsFlat(input) /\ input[2] = "^" /\ input[4] = "^")
        => /\ pc = "print"
           /\ result = <<"^", Lit(input[1]), <<"^", Lit(input[3]), Lit(input[5])>>>>

SamePrecLeft(o1, o2) ==
    \/ (o1 \in {"+", "-"} /\ o2 \in {"+", "-"})
    \/ (o1 \in {"*", "/"} /\ o2 \in {"*", "/"})

\* C3: a o1 b o2 c with o1, o2 left-associative operators of equal precedence
\* evaluates to (a o1 b) o2 c.
C3_LeftAssociativity ==
    (Ended /\ IsFlat(input) /\ SamePrecLeft(input[2], input[4]))
        => /\ pc = "print"
           /\ result = <<input[4], <<input[2], Lit(input[1]), Lit(input[3])>>, Lit(input[5])>>

\* 4-2-3 has been evaluated, to -1.
C3_Witness ==
    /\ pc = "print"
    /\ input = <<"4", "-", "2", "-", "3">>
    /\ IsArith(result)
    /\ Val(result) = 0 - 1

\* C4: (a o1 b) o2 c evaluates to (a o1 b) o2 c and a o1 (b o2 c) evaluates to
\* a o1 (b o2 c), for all operators of the table.
C4_ParenthesisOverride ==
    /\ (Ended /\ IsLeftParen(input))
        => /\ pc = "print"
           /\ result = <<input[6], <<input[3], Lit(input[2]), Lit(input[4])>>, Lit(input[7])>>
    /\ (Ended /\ IsRightParen(input))
        => /\ pc = "print"
           /\ result = <<input[2], Lit(input[1]), <<input[5], Lit(input[4]), Lit(input[6])>>>>

\* C5: on every well-formed line tokenise followed by expression returns the
\* value of the recursive-descent evaluator.
C5_ReferenceEquivalence ==
    (Ended /\ WellFormed(input))
        => /\ pc = "print"
           /\ result = RefEval(input).v

----------------------------------------------------------------------------
(* C6: signs in the tokeniser *)

\* What a step of tokenise may do when the next character is a sign.
SignStep ==
    (pc = "tokenise" /\ pos <= Len(input) /\ input[pos] \in Signs) =>
        IF (IF tokens = <<>> THEN TRUE ELSE tokens[Len(tokens)].type # "NUMBER")
        THEN \/ /\ pc' = "exit_failure"
                /\ stderr' = <<"Invalid token">>
                /\ tokens' = tokens
             \/ /\ pc' = "tokenise"
                /\ Len(tokens') = Len(tokens) + 1
                /\ SubSeq(tokens', 1, Len(tokens)) = tokens
                /\ tokens'[Len(tokens')].type = "NUMBER"
                /\ pos' > pos + 1
        ELSE /\ pc' = "tokenise"
             /\ tokens' = Append(tokens, Token("OPERATOR", input[pos], 0))
             /\ pos' = pos + 1

\* -a+b evaluates to b-a and a+-b evaluates to a-b.
SignedValues ==
    /\ (Ended /\ Len(input) = 4 /\ input[1] = "-" /\ input[2] \in Digits
            /\ input[3] = "+" /\ input[4] \in Digits)
        => /\ pc = "print"
           /\ IsArith(result)
           /\ Val(result) = DigitVal(input[4]) - DigitVal(input[2])
    /\ (Ended /\ Len(input) = 4 /\ input[1] \in Digits /\ input[2] = "+"
            /\ input[3] = "-" /\ input[4] \in Digits)
        => /\ pc = "print"
           /\ IsArith(result)
           /\ Val(result) = DigitVal(input[1]) - DigitVal(input[4])

\* C6: a sign starts a signed Number exactly when no token has been produced
\* or the last token is not a Number, and is an Operator otherwise; so -a+b
\* evaluates to b-a and a+-b to a-b.
C6_SignDisambiguation == [][SignStep]_vars /\ []SignedValues

\* 3+-2 has been tokenised as 3, +, -2 and evaluated to 1.
C6_Witness ==
    /\ pc = "print"
    /\ input = <<"3", "+", "-", "2">>
    /\ tokens = <<Token("NUMBER", "", 3), Token("OPERATOR", "+", 0), Token("NUMBER", "", 0 - 2)>>
    /\ Val(result) = 1

----------------------------------------------------------------------------
(* C7 .. C9: the failures of expression *)

\* tokenise returned: expression ran on tokens.
Evaluated == Ended /\ stderr # <<"Invalid token">>

RECURSIVE Alternates(_, _, _, _)
\* From token i on: operands and binary operators of ops alternate, a left
\* bracket stands where an operand may start and a right bracket where one
\* has ended; the last token ends an operand.
Alternates(toks, i, wantOperand, ops) ==
    IF i > Len(toks) THEN ~wantOperand
    ELSE CASE toks[i].type = "NUMBER" ->
                wantOperand /\ Alternates(toks, i + 1, FALSE, ops)
           [] toks[i].type = "LEFT_BRACKET" ->
                wantOperand /\ Alternates(toks, i + 1, TRUE, ops)
           [] toks[i].type = "RIGHT_BRACKET" ->
                ~wantOperand /\ Alternates(toks, i + 1, FALSE, ops)
           [] toks[i].type = "OPERATOR" ->
                ~wantOperand /\ toks[i].symbol \in ops /\ Alternates(toks, i + 1, TRUE, ops)

RECURSIVE Balanced(_, _, _)
\* From token i on, at depth d: no right bracket without an open left
\* bracket, and no left bracket left open.
Balanced(toks, i, d) ==
    IF i > Len(toks) THEN d = 0
    ELSE CASE toks[i].type = "LEFT_BRACKET" -> Balanced(toks, i + 1, d + 1)
           [] toks[i].type = "RIGHT_BRACKET" -> d > 0 /\ Balanced(toks, i + 1, d - 1)
           [] OTHER -> Balanced(toks, i + 1, d)

\* C7: a token sequence that is well formed except that its brackets do not
\* balance ends in the mismatched-parenthesis failure and returns no value.
C7_MismatchedParenthesis ==
    (Evaluated /\ Alternates(tokens, 1, TRUE, Supported) /\ ~Balanced(tokens, 1, 0))
        => /\ pc = "exit_failure"
           /\ stderr = <<"Mismatched parenthesis">>

\* (2+3 has failed with the mismatched-parenthesis diagnostic.
C7_Witness ==
    /\ pc = "exit_failure"
    /\ input = <<"(", "2", "+", "3">>
    /\ Len(tokens) = 4
    /\ stderr = <<"Mismatched parenthesis">>

HasUnsupported(toks) ==
    \E i \in 1..Len(toks) : toks[i].type = "OPERATOR" /\ toks[i].symbol \notin Supported

\* C8: a token sequence with an operator that is not in the table ends in the
\* unsupported-operator failure for that symbol, and no function is called
\* for a symbol the table was not built with.
C8_UnsupportedOperator ==
    (Evaluated /\ Alternates(tokens, 1, TRUE, OpChars) /\ Balanced(tokens, 1, 0)
            /\ HasUnsupported(tokens))
        => /\ pc = "exit_failure"
           /\ "indeterminate_call" \notin ub
           /\ Len(stderr) = 3
           /\ stderr[1] = "Operator"
           /\ stderr[2] \notin Supported

\* C9: no operand is read or popped from a queue that does not hold it; an
\* operator applied with fewer than two operands ends in the
\* insufficient-operands failure.
C9_InsufficientOperands == "front_on_empty" \notin ub

----------------------------------------------------------------------------
(* C10: failures are fatal *)

\* A step that leaves a diagnostic on std::cerr is the step that wrote it,
\* and it ends the process with the failure status, no result written.
FatalStep ==
    stderr' # NoDiagnostic =>
        /\ stderr = NoDiagnostic
        /\ pc' = "exit_failure"
        /\ nout' = 0

\* C10: once a line fails the process has terminated with the failure status,
\* no result is printed for the line and no later line is read.
C10_ErrorsAreFatal == [][FatalStep /\ pc # "exit_failure"]_vars

\* 2* has failed for want of an operand.
C10_Witness ==
    /\ pc = "exit_failure"
    /\ input = <<"2", "*">>
    /\ stderr = <<"Mismatched operands">>
    /\ nout = 0

----------------------------------------------------------------------------
(* C11: every non-empty line is answered *)

\* One step of the read loop as the claim has it: a non-empty line that
\* std::getline read goes to tokenise with nothing written for it yet, and
\* control comes back to std::getline only from the write of one result.
AnswerStep ==
    /\ (pc = "getline" /\ input' # <<>>) => (pc' = "tokenise" /\ nout' = 0)
    /\ (pc # "getline" /\ pc' = "getline") => (pc = "print" /\ nout' = 1)
    /\ (pc = "tokenise" /\ pc' = "expression") => tokens' = tokens
    /\ (pc = "expression" /\ pc' = "print") => nout' = 0

\* C11: while no line fails, every non-empty line the read loop takes from
\* the input, the last one before the end of the input included, is
\* tokenised and evaluated once and one result is written for it before the
\* next line is read.
C11_EveryLineAnswered == [][AnswerStep]_vars

----------------------------------------------------------------------------
(* C12: empty lines are skipped *)

\* std::getline read a terminated line of no characters: the loop stays at
\* std::getline, and nothing of the core or of the output moves.
EmptyStep ==
    (pc = "getline" /\ input' = <<>> /\ ~eof')
        => /\ pc' = "getline"
           /\ nout' = 0
           /\ <<pos, tokens, ti, output, operators, opContracts, result, stderr>>'
                = <<pos, tokens, ti, output, operators, opContracts, result, stderr>>

\* tokenise and expression only ever run on a line that has characters, and
\* the process ends with success only at the end of the input.
CoreOnNonEmpty ==
    /\ pc \in {"tokenise", "expression", "print"} => input # <<>>
    /\ pc = "exit_success" => eof

\* C12: an empty line is skipped: neither tokenise nor expression is called
\* for it, nothing is written, the read loop goes on with the next line, and
\* the session does not end.
C12_EmptyLinesSkipped == [][EmptyStep]_vars /\ []CoreOnNonEmpty

\* The first line of the stream was empty and the loop is back at
\* std::getline with nothing written.
C12_Witness ==
    /\ pc = "getline"
    /\ nleft = MaxLines - 1
    /\ input = <<>>
    /\ nout = 0
    /\ ~eof
    /\ stderr = NoDiagnostic

----------------------------------------------------------------------------
(* C14: the operator table is immutable *)

\* C14: in every reachable state, whatever token sequences tokenise,
\* expression and evaluate were called on, the operator table holds exactly
\* the five keys + - * / ^ with the contracts it was built with: no lookup
\* adds, removes or changes an entry.
C14_TableImmutable ==
    /\ DOMAIN opContracts = Supported
    /\ opContracts = InitialContracts

----------------------------------------------------------------------------
(* C13: no hidden state between lines *)

\* C13: the outcome of a line does not depend on the lines evaluated before
\* it: when the line that was just answered is evaluated again as the next
\* line, the second evaluation returns too and the value written is the one
\* written the first time.
C13_NoHiddenState ==
    (again # <<>> /\ Ended) => (pc = "print" /\ result = again[2])

----------------------------------------------------------------------------
(* C15: operand selection *)

\* A pop-and-apply step that went through: an operator left the stack and
\* the evaluation goes on (the Operator branch, the RightBracket branch or
\* the final drain).
ApplyStep ==
    /\ pc = "expression"
    /\ pc' = "expression"
    /\ operators # <<>>
    /\ Top(operators).type = "OPERATOR"
    /\ operators' = Pop(operators)

\* The two values produced last are the operands, the earlier one on the
\* left; they are replaced by the result, and the values before them stay.
SelectsMostRecent ==
    LET n == Len(output)
        op == Top(operators).symbol
    IN /\ Len(output') = n - 1
       /\ SubSeq(output', 1, n - 2) = SubSeq(output, 1, n - 2)
       /\ op \in Supported => output'[n - 1] = <<op, output[n - 1], output[n]>>

\* C15: every pop-and-apply step, at each of its three sites, applies the
\* operator to the two most recently produced values, removes exactly those
\* two and appends the result as the most recent value, leaving the earlier
\* values untouched and in order. Stated for the steps that find their two
\* operands and follow no undefined operation.
C15_OperandSelection ==
    [][(ApplyStep /\ Len(output) >= 2 /\ ub = {}) => SelectsMostRecent]_vars

----------------------------------------------------------------------------
(* C16: the state when expression returns *)

\* C16 as stated: whenever expression returns a value, the operator stack is
\* empty and the operand collection holds exactly one value, the one
\* returned, for every token sequence.
C16_StateAtExit ==
    pc = "print" =>
        /\ operators = <<>>
        /\ Len(output) = 1
        /\ result = output[1]

\* C16 as the program has it: whenever expression returns a value, the
\* operator stack is empty and the value returned is the one at the front of
\* the operand collection when it holds any; the collection holds exactly
\* one value when the tokens are operands and operators in alternation with
\* balanced brackets, and may hold more (3 4) or none (no token) otherwise.
C16_FrontAtExit ==
    pc = "print" =>
        /\ operators = <<>>
        /\ output # <<>> => result = output[1]
        /\ output = <<>> => (result \in FrontOnEmpty /\ "return_front_on_empty" \in ub)
        /\ Alternates(tokens, 1, TRUE, OpChars) => Len(output) = 1

\* 3 4 was evaluated: 3 is returned and both values are in the queue.
C16_Witness ==
    /\ pc = "print"
    /\ input = <<"3", " ", "4">>
    /\ output = <<Num(3), Num(4)>>
    /\ result = Num(3)
    /\ operators = <<>>

----------------------------------------------------------------------------
(* C17: the reduction rule of the Operator token and the bracket barrier *)

\* The test of the claim on two operators of the table.
ReductionTest(op, topOp) ==
    \/ (LeftAssoc(op) /\ Prec(op) <= Prec(topOp))
    \/ (~LeftAssoc(op) /\ Prec(op) < Prec(topOp))

\* The positions of the LeftBracket entries of a stack.
LeftBrackets(s) == {i \in 1..Len(s) : s[i].type = "LEFT_BRACKET"}

\* The position of the topmost LeftBracket of a stack, 0 when it has none.
TopBracket(s) ==
    IF LeftBrackets(s) = {} THEN 0
    ELSE CHOOSE i \in LeftBrackets(s) : \A j \in LeftBrackets(s) : j <= i

\* A step on an Operator token pops the top of the stack, or pushes the
\* token and moves on; it pops only an Operator entry, and when both
\* operators are in the table it pops exactly when the test holds.
RuleStep ==
    (Scanning /\ cur.type = "OPERATOR") =>
        LET popped == operators # <<>> /\ operators' = Pop(operators) /\ ti' = ti
            pushed == /\ operators' = Append(operators, cur)
                      /\ ti' = ti + 1
                      /\ output' = output
                      /\ pc' = pc
            canPop == IF operators = <<>> THEN FALSE
                      ELSE Top(operators).type = "OPERATOR"
        IN /\ popped \/ pushed
           /\ popped => canPop
           /\ ~canPop => pushed
           /\ IF canPop
              THEN {cur.symbol, Top(operators).symbol} \subseteq Supported
                      => (popped <=> ReductionTest(cur.symbol, Top(operators).symbol))
              ELSE TRUE

\* During the scan the entries up to the topmost LeftBracket are touched by
\* a RightBracket token only, and a step that removes a LeftBracket is a step
\* on a RightBracket token and removes one.
BarrierStep ==
    Scanning =>
        LET k == TopBracket(operators)
            before == Cardinality(LeftBrackets(operators))
            after == Cardinality(LeftBrackets(operators'))
        IN /\ cur.type # "RIGHT_BRACKET" =>
                /\ Len(operators') >= k
                /\ SubSeq(operators', 1, k) = SubSeq(operators, 1, k)
           /\ after < before => (cur.type = "RIGHT_BRACKET" /\ after = before - 1)
           /\ (cur.type = "RIGHT_BRACKET" /\ ti' = ti + 1) =>
                (operators' = SubSeq(operators, 1, k - 1) /\ k = Len(operators))

\* C17: on an Operator token the evaluator pops and applies the maximal run
\* of Operator entries at the top of the stack that pass the
\* precedence/associativity test, stops at the first entry that fails it or
\* at a LeftBracket, and then pushes the token; an Operator token pops no
\* entry at or below a LeftBracket, and a LeftBracket is removed only by a
\* RightBracket token, which removes exactly one.
C17_ReductionRule == [][RuleStep /\ BarrierStep]_vars

\* 2*3+4 at the token +: * was popped and applied, the stack is empty and +
\* is about to be pushed.
C17_Witness ==
    /\ input = <<"2", "*", "3", "+", "4">>
    /\ pc = "expression"
    /\ ti = 4
    /\ operators = <<>>
    /\ output = << <<"*", Num(2), Num(3)>> >>

----------------------------------------------------------------------------
(* C18: the evaluator is never run on an empty token sequence *)

\* C18: every line the read loop passes to the core yields at least one
\* token, so expression never returns a value read from an empty operand
\* collection, and a line of space characters only produces no result.
C18_NeverEmptyTokens ==
    /\ pc \in {"expression", "print"} => tokens # <<>>
    /\ "return_front_on_empty" \notin ub
    /\ ~(pc = "print" /\ \A i \in 1..Len(input) : input[i] = " ")

----------------------------------------------------------------------------
(* C19: termination *)

\* The process has ended: main returned, exit was called, or the process was
\* killed in an undefined operation.
Terminated == pc \in {"exit_success", "exit_failure", "crashed"}

\* What is left to do in expression: two for every token not scanned yet,
\* one for every entry of the operator stack.
Measure == 2 * (Len(tokens) - ti + 1) + Len(operators)

\* tokenise only moves forward in the line and stops at its end; every step
\* of expression takes from what is left to do.
ProgressStep ==
    /\ (pc = "tokenise" /\ pc' = "tokenise") =>
            (pos' > pos /\ pos' <= Len(input) + 1 /\ Len(tokens') <= Len(tokens) + 1)
    /\ (pc = "tokenise" /\ pc' = "expression") => pos = Len(input) + 1
    /\ (pc = "expression" /\ pc' = "expression") => (Measure' < Measure /\ Measure' >= 0)
    /\ (pc = "expression" /\ ApplyStep) => Len(operators') < Len(operators)

\* No more tokens than characters, and no more stack entries, hence no more
\* pop-and-apply steps, than tokens scanned.
WithinTokens ==
    /\ pc \in {"tokenise", "expression"} => Len(tokens) <= Len(input)
    /\ pc = "expression" => (ti <= Len(tokens) + 1 /\ Len(operators) <= ti - 1)

\* The status the process ends with: success only at the end of the input
\* and with no diagnostic written, failure with one.
ExitStatus ==
    /\ pc = "exit_success" => (eof /\ stderr = NoDiagnostic)
    /\ pc = "exit_failure" => stderr # NoDiagnostic

\* C19: on a finite line tokenise consumes each character at most once and
\* expression makes a number of pop-and-apply steps bounded by the number of
\* tokens, each ending in a return or a fatal end; on a finite input stream
\* the read loop eventually terminates, with success at the end of the input
\* when no line failed and with failure otherwise.
C19_Termination ==
    /\ [][ProgressStep]_vars
    /\ [](WithinTokens /\ ExitStatus)
    /\ <>Terminated

\* A bounded stream was read to its end: every line was taken, the last one
\* was answered, and main returned with success.
C19_Witness ==
    /\ pc = "exit_success"
    /\ eof
    /\ nleft = 0
    /\ nout = 1
    /\ stderr = NoDiagnostic

====
